---- MODULE Spec2Model ----
(***************************************************************************)
(* A model of moreviews/editviews.py: the bound form / formset factories, *)
(* BoundCreateView, ProcessMultipleFormsMixin, MultiBoundObjectFormsMixin   *)
(* and the three composed views.                                           *)
(*                                                                         *)
(* Three specifications share the module:                                  *)
(*   SpecFactory  bound_object_form / bound_object_formset on their own     *)
(*   SpecBound    BoundCreateView's methods on their own                    *)
(*   Spec         whole GET / POST requests against the three Multi* views  *)
(***************************************************************************)
EXTENDS Integers, Sequences, FiniteSets, TLC

VARIABLES
    view,          \* the view class the requests are routed to
    forms_models,  \* its class attribute forms_models (shared by all requests)
    db_primary,    \* rows of the primary model
    db_secondary,  \* rows of the secondary (child) models
    object,        \* self.object when the request ended
    new_object,    \* self.new_object when the request ended
    form,          \* the primary form the request built last
    forms,         \* the secondary formsets the request built last
    sub_objects,   \* what the secondary saves returned (line 281)
    log,           \* what the request did, in order
    response,      \* how the request ended
    request,       \* the request that was handled last
    fx,            \* SpecFactory: one use of the factories
    bv             \* SpecBound: one BoundCreateView instance

vars == << view, forms_models, db_primary, db_secondary, object, new_object,
           form, forms, sub_objects, log, response, request, fx, bv >>

mainVars == << view, forms_models, db_primary, db_secondary, object, new_object,
               form, forms, sub_objects, log, response, request >>

----------------------------------------------------------------------------
(* Bounds *)

MaxExclude == 2      \* longest exclusion list configured
MaxForms == 2        \* most rows one formset submits / most forms saved at once
MaxModels == 2       \* most entries of forms_models
MaxPrimary == 2      \* most rows of the primary model
MaxSecondary == 3    \* most rows of the secondary models

----------------------------------------------------------------------------
(* Values *)

Obj(t, k) == [type |-> t, pk |-> k]
NoneObj == Obj("NoneType", 0)           \* Python's None
UnsetObj == Obj("<no attribute>", 0)    \* the attribute does not exist
NoField == "None"                       \* field_name is None

Contains(seq, x) == \E i \in DOMAIN seq : seq[i] = x
Count(seq, x) == Cardinality({i \in DOMAIN seq : seq[i] = x})
Range(seq) == {seq[i] : i \in DOMAIN seq}

\* F applied to the value of v, which is computed once.
With(v, F(_)) == CHOOSE r \in { F(x) : x \in {v} } : TRUE

RECURSIVE Concat(_)
Concat(seqs) == IF seqs = << >> THEN << >> ELSE Head(seqs) \o Concat(Tail(seqs))

\* The secondary models and their declared fields, in declaration order.
FieldNames == {"name", "parent", "other"}
Field(n, isFk) == [name |-> n, fk |-> isFk]
ModelFields(m) ==
    CASE m = "Child" -> << Field("name", FALSE), Field("parent", TRUE) >>
      [] m = "Link"  -> << Field("parent", TRUE), Field("name", FALSE), Field("other", TRUE) >>
      [] m = "Tag"   -> << Field("name", FALSE) >>
      [] m = "Primary" -> << Field("name", FALSE), Field("parent", TRUE) >>
      [] OTHER       -> << >>
HasField(m, f) == \E i \in DOMAIN ModelFields(m) : ModelFields(m)[i].name = f

\* str.lower() on the names that occur
Lower(s) ==
    CASE s = "Child"  -> "child"
      [] s = "Link"   -> "link"
      [] s = "Tag"    -> "tag"
      [] s = "Parent" -> "parent"
      [] s = "Owner"  -> "owner"
      [] OTHER        -> s

\* Exclusion lists: lists of field names without repetition.
ExcludeLists ==
    { s \in UNION { [1..k -> FieldNames] : k \in 0..MaxExclude } :
        \A i, j \in DOMAIN s : i # j => s[i] # s[j] }

\* A base form class: None, or a ModelForm whose Meta may carry `exclude`.
FormClass(g, h, e) == [given |-> g, hasExclude |-> h, exclude |-> e]
NoForm == FormClass(FALSE, FALSE, << >>)
BaseForms == {NoForm, FormClass(TRUE, FALSE, << >>)}
             \cup { FormClass(TRUE, TRUE, e) : e \in ExcludeLists }

\* The pass-through options of bound_object_formset, as far as `exclude` goes.
Kwargs(h, e) == [hasExclude |-> h, exclude |-> e]
NoKwargs == Kwargs(FALSE, << >>)
FactoryKwargs == {NoKwargs} \cup { Kwargs(TRUE, e) : e \in ExcludeLists }

\* A bound value: a concrete value, or a zero-argument producer.
Value(v) == [callable |-> FALSE, fn |-> "value", value |-> v]
Producer(f) == [callable |-> TRUE, fn |-> f, value |-> NoneObj]

\* A model instance; pk = 0 while it is unsaved.
Instance(m, k, p, o, n) == [model |-> m, pk |-> k, parent |-> p, other |-> o, name |-> n]
NewInstance(m) == Instance(m, 0, NoneObj, NoneObj, 0)
SubmittedData(p, o, n) == [parent |-> p, other |-> o, name |-> n]

\* The parts of the state a specification does not use stay as they start.
IdleForm == [ stage |-> "idle" ]
IdleResponse == [ kind |-> "none" ]
IdleRequest == [ method |-> "none" ]
IdleFx == [ stage |-> "idle" ]
IdleBv == [ stage |-> "idle" ]

----------------------------------------------------------------------------
(* bound_object_form, lines 30-67 *)

\* A faulty variant: the parent field is appended without looking for it first.
bound_object_form_append_always(_model, field, initial, form_) ==
    LET excludes == IF form_.hasExclude THEN form_.exclude ELSE << field >>
    IN  [ model |-> _model, field |-> field, initial |-> initial,
          exclude |-> Append(excludes, field), calls |-> << >> ]

\* A faulty variant: the producer is called while the form type is built.
bound_object_form_eager(_model, field, initial, form_) ==
    LET excludes == IF form_.hasExclude THEN form_.exclude ELSE << field >>
    IN  [ model |-> _model, field |-> field, initial |-> initial,
          exclude |-> IF Contains(excludes, field) THEN excludes
                      ELSE Append(excludes, field),
          calls |-> IF initial.callable THEN << "bound_object_form" >> ELSE << >> ]

\* The form type _form: its Meta.exclude, and what the closure of save holds.
\* calls: the invocations of `initial` made while the type is built (none).
bound_object_form(_model, field, initial, form_) ==
    LET excludes == IF form_.hasExclude THEN form_.exclude ELSE << field >>
    IN  [ model |-> _model, field |-> field, initial |-> initial,
          exclude |-> IF Contains(excludes, field) THEN excludes
                      ELSE Append(excludes, field),
          calls |-> << >> ]

\* super(_form, self).save(commit=False): the instance takes the submitted
\* value of every field of the model that the form does not exclude.
ModelForm_save(formType, instance, data) ==
    LET editable(f) == HasField(formType.model, f) /\ ~Contains(formType.exclude, f)
    IN  [ instance EXCEPT
            !.parent = IF editable("parent") THEN data.parent ELSE @,
            !.other  = IF editable("other")  THEN data.other  ELSE @,
            !.name   = IF editable("name")   THEN data.name   ELSE @ ]

\* _form.save up to `if commit`: the unsaved instance with the parent field
\* set. produced: what initial() returns when it is called now.
form_save(formType, instance, data, produced) ==
    LET obj == ModelForm_save(formType, instance, data)
        bound == IF formType.initial.callable THEN produced
                 ELSE formType.initial.value
    IN  [ obj |-> [obj EXCEPT ![formType.field] = bound],
          calls |-> IF formType.initial.callable THEN << "save" >> ELSE << >> ]

----------------------------------------------------------------------------
(* bound_object_formset, lines 70-105 *)

\* Lines 89-91: the caller's `exclude` list gets the field appended in place.
\* The result is the closure of `construct`.
bound_object_formset(_model, queryset, field, initial, form_, factory_kwargs) ==
    [ model |-> _model, queryset |-> queryset, field |-> field,
      initial |-> initial, form |-> form_,
      factory_kwargs |->
          IF factory_kwargs.hasExclude /\ ~Contains(factory_kwargs.exclude, field)
          THEN [factory_kwargs EXCEPT !.exclude = Append(@, field)]
          ELSE factory_kwargs ]

\* modelformset_factory(form=..., **factory_kwargs): an `exclude` option
\* replaces the Meta.exclude of the form it is given (comment, lines 86-88).
modelformset_factory(formType, factory_kwargs) ==
    IF factory_kwargs.hasExclude
    THEN [formType EXCEPT !.exclude = factory_kwargs.exclude]
    ELSE formType

\* construct(*args, **kwargs), lines 93-103: the form type of the formset.
construct(closure) ==
    modelformset_factory(
        bound_object_form(closure.model, closure.field, closure.initial, closure.form),
        closure.factory_kwargs)

----------------------------------------------------------------------------
(* BoundCreateView, lines 108-210 *)

MaxSuperNames == 2   \* most template names the superclasses contribute

\* _meta of a model: app_label and object_name
Meta(app, name) == [app_label |-> app, object_name |-> name]
NoMeta == Meta("", "")                  \* no model / no _meta
ParentMetas == { Meta(a, n) : a \in {"app1", "app2"}, n \in {"Parent", "Owner"} }
ChildMetas == { Meta(a, n) : a \in {"app1", "app2"}, n \in {"Child", "Link"} }
Suffixes == {"_create", "_form"}

\* A template name is the list of the pieces the % operator joins.
Format2(a, b, c) == << a, "/", b, c, ".html" >>             \* "%s/%s%s.html"
Format3(a, b, c, d) == << a, "/", b, "_", c, d, ".html" >>  \* "%s/%s_%s%s.html"
Insert0(names, x) == << x >> \o names                       \* names.insert(0, x)

\* What super().get_template_names() does: a list of names, or
\* ImproperlyConfigured.
SuperNames(r, l) == [raises |-> r, names |-> l]
OtherNames == { << "custom.html" >>, Format2("app1", "parent", "_create") }
SuperResults ==
    {SuperNames(TRUE, << >>)}
    \cup { SuperNames(FALSE, l) :
             l \in UNION { [1..k -> OtherNames] : k \in 0..MaxSuperNames } }

\* ModelFormMixin.get_form_kwargs: self.object goes in as the instance
\* (comment, lines 179-180); FormMixin adds the data of a POST.
ModelFormMixin_get_form_kwargs(self_object, method) ==
    [ instance |-> self_object, bound |-> method = "POST" ]

\* A faulty variant: the superclass computes kwargs with self.object in place.
get_form_kwargs_no_clear(self_object, method) ==
    [ object |-> self_object,
      kwargs |-> ModelFormMixin_get_form_kwargs(self_object, method) ]

\* BoundCreateView.get_form_kwargs, lines 178-187: self.object afterwards,
\* and the kwargs returned.
get_form_kwargs(self_object, method) ==
    LET _object == self_object
        cleared == NoneObj
        kwargs == ModelFormMixin_get_form_kwargs(cleared, method)
    IN  [ object |-> _object, kwargs |-> kwargs ]

\* A faulty variant: the names are inserted in the order the docstring lists them,
\* which reverses them.
get_template_names_reversed(self_object, object_meta, model_meta, suffix, super_) ==
    LET names == IF super_.raises THEN << >> ELSE super_.names
        p == Lower(object_meta.object_name)
        c == Lower(model_meta.object_name)
    IN  IF self_object # NoneObj /\ object_meta # NoMeta /\ model_meta # NoMeta
        THEN << Format2(object_meta.app_label, c, suffix),
                Format2(model_meta.app_label, c, suffix),
                Format3(model_meta.app_label, p, c, suffix),
                Format3(object_meta.app_label, p, c, suffix) >> \o names
        ELSE names

\* BoundCreateView.get_template_names, lines 189-210
get_template_names(self_object, object_meta, model_meta, suffix, super_) ==
    LET names == IF super_.raises THEN << >> ELSE super_.names
    IN  IF self_object # NoneObj /\ object_meta # NoMeta /\ model_meta # NoMeta
        THEN LET parent_app == object_meta.app_label
                 parent_object_name == Lower(object_meta.object_name)
                 child_app == model_meta.app_label
                 child_object_name == Lower(model_meta.object_name)
                 n1 == Insert0(names, Format2(parent_app, child_object_name, suffix))
                 n2 == Insert0(n1, Format2(child_app, child_object_name, suffix))
                 n3 == Insert0(n2, Format3(child_app, parent_object_name,
                                           child_object_name, suffix))
             IN  Insert0(n3, Format3(parent_app, parent_object_name,
                                     child_object_name, suffix))
        ELSE names

----------------------------------------------------------------------------
(* MultiBoundObjectFormsMixin.get_forms, lines 329-394 *)

\* One entry of forms_models: a bare model, or a dictionary with `model` and
\* optionally `field_name`, `queryset`, `form` and other factory options.
Conf(d, m, f, q, fc, kw) ==
    [ dict |-> d, model |-> m, field_name |-> f, queryset |-> q,
      form |-> fc, kwargs |-> kw ]
Bare(m) == Conf(FALSE, m, NoField, "None", NoForm, NoKwargs)

\* One thing the request did.
Ev(op, arg) == [ op |-> op, arg |-> arg ]

\* A query: none(), filter(<field>=<target>), or the configured one.
Queryset(kind, field, target) == [ kind |-> kind, field |-> field, target |-> target ]

\* Lines 366-368: the scan over model._meta.fields.
RECURSIVE scan_fields(_, _)
scan_fields(fields, found) ==
    IF fields = << >> THEN found
    ELSE scan_fields(Tail(fields),
                     IF Head(fields).fk THEN Head(fields).name ELSE found)

\* Lines 363-372: the parent field of an entry (NoField: ImproperlyConfigured).
foreign_key_field_of(conf) ==
    IF conf.field_name # NoField THEN conf.field_name
    ELSE scan_fields(ModelFields(conf.model), NoField)

\* Lines 373-381: the base query of an entry.
queryset_of(conf, self, foreign_key_field) ==
    IF conf.queryset # "None" THEN Queryset("explicit", NoField, NoneObj)
    ELSE IF self.object = UnsetObj \/ self.object = NoneObj
         THEN Queryset("none", NoField, NoneObj)
         ELSE Queryset("filter", foreign_key_field, self.object)

\* Line 352, dict(model_conf): the mapping is copied, its values are not, so
\* the `exclude` list bound_object_formset appends to is the entry's own.
\* The entry after the call, given the factory options after the call.
conf_after(conf, factory_kwargs) ==
    [ conf EXCEPT !.kwargs = factory_kwargs ]

\* The body of the loop for one entry, lines 348-392.
get_forms_entry(conf, self, method) ==
    LET key == Lower(conf.model)
        foreign_key_field == foreign_key_field_of(conf)
        queryset == queryset_of(conf, self, foreign_key_field)
        closure == bound_object_formset(conf.model, queryset, foreign_key_field,
                                        Producer("new_object"), conf.form, conf.kwargs)
        type == construct(closure)
    IN  IF foreign_key_field = NoField
        THEN [ raised |-> TRUE, conf |-> conf, log |-> << >>,
               formset |-> [ key |-> key ] ]
        ELSE [ raised |-> FALSE,
               conf |-> conf_after(conf, closure.factory_kwargs),
               log |-> << Ev("bound_object_formset", key),
                          Ev("bound_object_form", key) >>
                       \o [ i \in DOMAIN type.calls |-> Ev("initial()", type.calls[i]) ]
                       \o << Ev("formset()", key) >>,
               formset |-> [ key |-> key, prefix |-> key, model |-> conf.model,
                             field |-> foreign_key_field, queryset |-> queryset,
                             type |-> type, bound |-> method = "POST",
                             auto |-> conf.field_name = NoField,
                             is_valid |-> "unchecked" ] ]

RECURSIVE get_forms_from(_, _, _, _)
get_forms_from(i, acc, self, method) ==
    IF i > Len(acc.confs) \/ acc.raised THEN acc
    ELSE With(get_forms_entry(acc.confs[i], self, method), LAMBDA e :
         With([ confs |-> [acc.confs EXCEPT ![i] = e.conf],
                forms |-> IF e.raised THEN acc.forms ELSE Append(acc.forms, e.formset),
                raised |-> e.raised,
                log |-> acc.log \o e.log ], LAMBDA next :
         get_forms_from(i + 1, next, self, method)))

\* get_forms: the formsets in the order of forms_models, forms_models as the
\* call leaves it, and whether ImproperlyConfigured was raised.
get_forms(confs, self, method) ==
    get_forms_from(1, [ confs |-> confs, forms |-> << >>, raised |-> FALSE,
                        log |-> << >> ], self, method)

----------------------------------------------------------------------------
(* The database *)

ParentPks == {1}                        \* the rows of the parent model

RowWithPk(rows, k) == CHOOSE r \in rows : r.pk = k
NextPk(rows) == IF rows = {} THEN 1
                ELSE 1 + (CHOOSE k \in {r.pk : r \in rows} :
                            \A r \in rows : r.pk <= k)

\* Model.save(): an insert under a fresh pk, or an update of the row.
model_save(rows, obj) ==
    LET same == { r \in rows : r.model = obj.model }
        saved == IF obj.pk = 0 THEN [obj EXCEPT !.pk = NextPk(same)] ELSE obj
    IN  [ rows |-> { r \in rows : ~(r.model = saved.model /\ r.pk = saved.pk) }
                   \cup {saved},
          obj |-> saved ]

\* The rows a query returns, in pk order.
RECURSIVE InPkOrder(_)
InPkOrder(rows) ==
    IF rows = {} THEN << >>
    ELSE LET first == CHOOSE r \in rows : \A q \in rows : r.pk <= q.pk
         IN  << first >> \o InPkOrder(rows \ {first})

queryset_rows(queryset, model, rows) ==
    InPkOrder({ r \in rows :
                  /\ r.model = model
                  /\ CASE queryset.kind = "none" -> FALSE
                       [] queryset.kind = "filter" -> r[queryset.field] = queryset.target
                       [] OTHER -> TRUE })

----------------------------------------------------------------------------
(* The views: get_object, get_form_class, get_form *)

Views == {"MultiUpdateView", "MultiBoundCreateView", "MultiCreateView"}

\* A fresh view instance: MultiCreateView declares object = None (line 419).
NewView(v) ==
    [ object |-> IF v = "MultiCreateView" THEN NoneObj ELSE UnsetObj,
      new_object |-> UnsetObj ]

\* SingleObjectMixin.get_object(): the row the URL names, or Http404.
\* MultiUpdateView looks in the primary model, BoundCreateView in the parents.
get_object(v, urlpk, dbp) ==
    IF v = "MultiUpdateView"
    THEN [ found |-> \E r \in dbp : r.pk = urlpk, obj |-> Obj("Primary", urlpk) ]
    ELSE [ found |-> urlpk \in ParentPks, obj |-> Obj("Parent", urlpk) ]

\* The form type ModelFormMixin.get_form_class gives: every field editable.
PlainForm(m) ==
    [ model |-> m, field |-> NoField, initial |-> Value(NoneObj),
      exclude |-> << >>, calls |-> << >> ]

\* get_form(get_form_class()), lines 163-176 for BoundCreateView and
\* ModelFormMixin / FormMixin otherwise.
get_primary_form(v, self, req, dbp) ==
    LET looked == get_object(v, req.urlpk, dbp)
        bound == v = "MultiBoundCreateView"
        self1 == IF bound THEN [self EXCEPT !.object = looked.obj] ELSE self
        type == IF bound
                THEN bound_object_form("Primary", "parent", Producer("get_object"), NoForm)
                ELSE PlainForm("Primary")
        kw == IF bound THEN get_form_kwargs(self1.object, req.method)
              ELSE [ object |-> self1.object,
                     kwargs |-> ModelFormMixin_get_form_kwargs(
                                    IF self1.object = UnsetObj THEN NoneObj
                                    ELSE self1.object, req.method) ]
    IN  IF bound /\ ~looked.found
        THEN [ status |-> "404", self |-> self, log |-> << Ev("get_object", "Http404") >>,
               form |-> [ prefix |-> "" ] ]
        ELSE [ status |-> "ok",
               self |-> [self1 EXCEPT !.object = kw.object],
               log |-> (IF bound THEN << Ev("get_object", "") >> ELSE << >>)
                       \o << Ev("get_form_class", "") >>
                       \o [ i \in DOMAIN type.calls |-> Ev("initial()", type.calls[i]) ]
                       \o << Ev("form()", "") >>,
               form |-> [ prefix |-> IF bound THEN "core-object" ELSE "",
                          type |-> type, instance |-> kw.kwargs.instance,
                          bound |-> kw.kwargs.bound, is_valid |-> "unchecked" ] ]

\* form = self.get_form(self.get_form_class()); forms = self.get_forms()
\* (lines 245-246 and 260-261)
build_forms(v, self, confs, req, dbp) ==
    With(get_primary_form(v, self, req, dbp), LAMBDA f :
        IF f.status # "ok"
        THEN [ status |-> f.status, self |-> f.self, confs |-> confs,
               form |-> f.form, forms |-> << >>, log |-> f.log ]
        ELSE With(get_forms(confs, f.self, req.method), LAMBDA g :
             [ status |-> IF g.raised THEN "ImproperlyConfigured" ELSE "ok",
               self |-> f.self, confs |-> g.confs, form |-> f.form,
               forms |-> g.forms, log |-> f.log \o g.log ]))

----------------------------------------------------------------------------
(* ProcessMultipleFormsMixin, lines 213-292 *)

\* Lines 262-266. form.is_valid() comes first and `and` stops at a failure;
\* Python 2's map then validates every formset before all() looks at any.
validate(form_, forms_, req) ==
    [ form |-> [form_ EXCEPT !.is_valid = IF req.form_valid THEN "valid" ELSE "invalid"],
      forms |-> [ i \in DOMAIN forms_ |->
                    [forms_[i] EXCEPT !.is_valid =
                        IF ~req.form_valid THEN "unchecked"
                        ELSE IF req.invalid = i THEN "invalid" ELSE "valid"] ],
      log |-> << Ev("form.is_valid", "") >>
              \o (IF req.form_valid
                  THEN [ i \in DOMAIN forms_ |-> Ev("formset.is_valid", forms_[i].key) ]
                  ELSE << >>) ]

\* A faulty variant: only the primary form decides.
all_valid_primary_only(form_, forms_) == form_.is_valid = "valid"

\* The condition of line 262.
all_valid(form_, forms_) ==
    /\ form_.is_valid = "valid"
    /\ \A i \in DOMAIN forms_ : forms_[i].is_valid = "valid"

\* A faulty variant: the producer hands out self.object.
lambda_self_object(self) == self.object

\* lambda: self.new_object (line 387)
lambda_new_object(self) == self.new_object

\* f.save() of one formset: the changed rows of its query, then the new rows,
\* each through _form.save(commit=True).
RECURSIVE formset_save_from(_, _, _, _, _)
formset_save_from(insts, acc, formset, self, req) ==
    IF insts = << >> THEN acc
    ELSE With(form_save(formset.type, Head(insts), req.data, lambda_new_object(self)),
              LAMBDA r :
         With(model_save(acc.rows, r.obj), LAMBDA stored :
         With([ rows |-> stored.rows,
                saved |-> Append(acc.saved, stored.obj),
                log |-> acc.log \o << Ev("form.save", formset.key) >>
                        \o [ i \in DOMAIN r.calls |-> Ev("initial()", "new_object") ]
                        \o << Ev("obj.save()", formset.key) >> ], LAMBDA next :
         formset_save_from(Tail(insts), next, formset, self, req))))

formset_save(formset, self, req, rows) ==
    LET existing == IF req.changed
                    THEN queryset_rows(formset.queryset, formset.model, rows)
                    ELSE << >>
        fresh == [ i \in 1..req.n |-> NewInstance(formset.model) ]
    IN  formset_save_from(existing \o fresh,
            [ rows |-> rows, saved |-> << >>,
              log |-> << Ev("formset.save", formset.key) >> ],
            formset, self, req)

\* Line 281: [ f.save() for f in forms.values() ]
RECURSIVE forms_save_from(_, _, _, _, _)
forms_save_from(i, acc, forms_, self, req) ==
    IF i > Len(forms_) THEN acc
    ELSE With(formset_save(forms_[i], self, req, acc.rows), LAMBDA r :
         With([ rows |-> r.rows, sub_objects |-> Append(acc.sub_objects, r.saved),
                log |-> acc.log \o r.log ], LAMBDA next :
         forms_save_from(i + 1, next, forms_, self, req)))

\* A faulty variant: the secondary forms are saved before the primary object is.
post_valid_steps_children_first ==
    << "form.save(commit=False)", "forms.save()", "new_object.save()",
       "form.save_m2m()", "get_success_url()" >>

\* Lines 279-285, in the order of the code.
post_valid_steps ==
    << "form.save(commit=False)", "new_object.save()", "forms.save()",
       "form.save_m2m()", "get_success_url()" >>

\* One of the statements of lines 279-285 (and MultiCreateView.get_success_url,
\* lines 421-423). st.inst is the instance self.new_object refers to.
post_valid_step(step, st, v, form_, forms_, req) ==
    CASE step = "form.save(commit=False)" ->
           LET inst == IF form_.instance = NoneObj THEN NewInstance("Primary")
                       ELSE RowWithPk(st.dbp, form_.instance.pk)
               r == IF form_.type.field = NoField
                    THEN [ obj |-> ModelForm_save(form_.type, inst, req.data),
                           calls |-> << >> ]
                    ELSE form_save(form_.type, inst, req.data,
                                   get_object(v, req.urlpk, st.dbp).obj)
           IN  [ st EXCEPT
                   !.inst = r.obj,
                   !.self = [st.self EXCEPT !.new_object = Obj("Primary", r.obj.pk)],
                   !.log = @ \o << Ev("form.save", "commit=False") >>
                             \o [ i \in DOMAIN r.calls |-> Ev("initial()", "get_object") ] ]
      [] step = "new_object.save()" ->
           LET stored == model_save(st.dbp, st.inst)
           IN  [ st EXCEPT
                   !.inst = stored.obj,
                   !.dbp = stored.rows,
                   !.self = [st.self EXCEPT !.new_object = Obj("Primary", stored.obj.pk)],
                   !.log = @ \o << Ev("new_object.save()", "") >> ]
      [] step = "forms.save()" ->
           With(forms_save_from(1, [ rows |-> st.dbs, sub_objects |-> << >>,
                                     log |-> << >> ], forms_, st.self, req),
                LAMBDA r :
                [ st EXCEPT !.dbs = r.rows, !.sub_objects = r.sub_objects,
                            !.log = @ \o r.log ])
      [] step = "form.save_m2m()" ->
           [ st EXCEPT !.log = @ \o << Ev("form.save_m2m()", "") >> ]
      [] OTHER ->
           LET self1 == IF v = "MultiCreateView"
                        THEN [st.self EXCEPT !.object = st.self.new_object]
                        ELSE st.self
           IN  [ st EXCEPT !.self = self1, !.to = self1.object,
                           !.log = @ \o << Ev("get_success_url()", "") >> ]

RECURSIVE post_valid_from(_, _, _, _, _, _)
post_valid_from(steps, st, v, form_, forms_, req) ==
    IF steps = << >> THEN st
    ELSE With(post_valid_step(Head(steps), st, v, form_, forms_, req), LAMBDA next :
         post_valid_from(Tail(steps), next, v, form_, forms_, req))

\* What a request leaves behind.
Outcome(kind, to, self, confs, dbp, dbs, form_, forms_, subs, log_) ==
    [ response |-> [ kind |-> kind, to |-> to ], self |-> self, confs |-> confs,
      dbp |-> dbp, dbs |-> dbs, form |-> form_, forms |-> forms_,
      sub_objects |-> subs, log |-> log_ ]

\* render_to_response(self.get_context_data()), lines 244-257 and 287:
\* get_context_data builds the forms (again, after a failed POST).
render(v, self, confs, dbp, dbs, req, keep, log_) ==
    With(build_forms(v, self, confs, req, dbp), LAMBDA b :
        Outcome(IF b.status = "ok" THEN "render" ELSE b.status, NoneObj,
                b.self, b.confs, dbp, dbs,
                IF keep.kept THEN keep.form ELSE b.form,
                IF keep.kept THEN keep.forms ELSE b.forms,
                << >>,
                log_ \o b.log
                     \o (IF b.status = "ok" THEN << Ev("render_to_response", "") >>
                         ELSE << >>)))

NoKeep == [ kept |-> FALSE ]

\* ProcessMultipleFormsMixin.get, lines 256-257
get(v, self, confs, dbp, dbs, req) ==
    render(v, self, confs, dbp, dbs, req, NoKeep, << >>)

\* ProcessMultipleFormsMixin.post, lines 259-287
post(v, self, confs, dbp, dbs, req) ==
    With(build_forms(v, self, confs, req, dbp), LAMBDA b :
        IF b.status # "ok"
        THEN Outcome(b.status, NoneObj, b.self, b.confs, dbp, dbs,
                     b.form, b.forms, << >>, b.log)
        ELSE With(validate(b.form, b.forms, req), LAMBDA checked :
             IF all_valid(checked.form, checked.forms)
             THEN With(post_valid_from(post_valid_steps,
                           [ self |-> b.self, dbp |-> dbp, dbs |-> dbs,
                             inst |-> NewInstance("Primary"), sub_objects |-> << >>,
                             to |-> NoneObj, log |-> b.log \o checked.log ],
                           v, checked.form, checked.forms, req), LAMBDA st :
                  Outcome("redirect", st.to, st.self, b.confs, st.dbp, st.dbs,
                          checked.form, checked.forms, st.sub_objects, st.log))
             ELSE render(v, b.self, b.confs, dbp, dbs, req,
                         [ kept |-> TRUE, form |-> checked.form,
                           forms |-> checked.forms ],
                         b.log \o checked.log)))

\* MultipleFormsUpdateView.get / .post, lines 320-326: self.object is
\* resolved first. The other views go to the mixin directly.
dispatch(v, confs, dbp, dbs, req) ==
    LET looked == get_object(v, req.urlpk, dbp)
        self == IF v = "MultiUpdateView"
                THEN [NewView(v) EXCEPT !.object = looked.obj]
                ELSE NewView(v)
    IN  IF v = "MultiUpdateView" /\ ~looked.found
        THEN Outcome("404", NoneObj, NewView(v), confs, dbp, dbs,
                     IdleForm, << >>, << >>, << Ev("get_object", "Http404") >>)
        ELSE IF req.method = "POST"
        THEN post(v, self, confs, dbp, dbs, req)
        ELSE get(v, self, confs, dbp, dbs, req)

----------------------------------------------------------------------------
(* SpecFactory: the factories used on their own.                           *)
(* One behaviour is one use: build the form type (or the formset closure),  *)
(* construct an instance, validate it, save it. The object the producer     *)
(* returns may come into existence at any moment before the save.           *)

TheParent == Obj("Parent", 1)      \* what the producer returns once it exists
FixedParent == Obj("Parent", 2)    \* a bound value given as a plain value
Intruder == Obj("Parent", 3)       \* a value submitted for the parent field

FxTargets == { << "Child", "parent" >>, << "Link", "parent" >>, << "Link", "other" >> }
FxInitials == { Value(FixedParent), Producer("parent") }
FxData == { SubmittedData(Intruder, Intruder, 1), SubmittedData(NoneObj, Intruder, 0) }

FxNoType == bound_object_form("", "", Value(NoneObj), NoForm)
FxNoClosure == bound_object_formset("", "none", "", Value(NoneObj), NoForm, NoKwargs)

FxArgs ==
    { [ stage |-> "args", path |-> "none", model |-> t[1], field |-> t[2],
        base |-> b, initial |-> i, kw |-> k, kw0 |-> k, parent |-> p,
        built |-> FALSE, type |-> FxNoType, closure |-> FxNoClosure,
        n |-> 0, valid |-> FALSE, objs |-> << >>, calls |-> << >>,
        failed |-> "no" ] :
      t \in FxTargets, b \in BaseForms, k \in FactoryKwargs, i \in FxInitials,
      p \in {NoneObj, TheParent} }

\* The producer raises while the object it is to return does not exist.
FxRaises(calls) == calls # << >> /\ fx.parent = NoneObj

\* bound_object_form(_model, field, initial, form)
FxBoundObjectForm ==
    /\ fx.stage = "args"
    /\ fx.kw = NoKwargs
    /\ LET t == bound_object_form(fx.model, fx.field, fx.initial, fx.base)
       IN  fx' = [ fx EXCEPT !.stage = "type", !.path = "form", !.built = TRUE,
                             !.type = t, !.calls = @ \o t.calls,
                             !.failed = IF FxRaises(t.calls) THEN "type" ELSE @ ]
    /\ UNCHANGED mainVars
    /\ UNCHANGED bv

\* bound_object_formset(_model, queryset, field, initial, form, **factory_kwargs)
FxBoundObjectFormset ==
    /\ fx.stage = "args"
    /\ LET c == bound_object_formset(fx.model, "all", fx.field, fx.initial,
                                     fx.base, fx.kw)
       IN  fx' = [ fx EXCEPT !.stage = "type", !.path = "formset",
                             !.closure = c, !.kw = c.factory_kwargs ]
    /\ UNCHANGED mainVars
    /\ UNCHANGED bv

\* _form(data) on the form path, construct(data) on the formset path
FxConstruct(n) ==
    /\ fx.stage = "type"
    /\ fx.failed = "no"
    /\ fx.path = "form" => n = 1
    /\ LET t == IF fx.path = "form" THEN fx.type ELSE construct(fx.closure)
           made == IF fx.path = "form" THEN << >> ELSE t.calls
       IN  fx' = [ fx EXCEPT !.stage = "instance", !.built = TRUE, !.type = t,
                             !.n = n, !.calls = @ \o made,
                             !.failed = IF FxRaises(made) THEN "instance" ELSE @ ]
    /\ UNCHANGED mainVars
    /\ UNCHANGED bv

\* is_valid(): the model validation of the rows; `initial` plays no part
FxIsValid(ok) ==
    /\ fx.stage = "instance"
    /\ fx.failed = "no"
    /\ fx' = [ fx EXCEPT !.stage = "validated", !.valid = ok ]
    /\ UNCHANGED mainVars
    /\ UNCHANGED bv

\* The object the producer is to return is created (by whoever owns it).
FxParentAppears ==
    /\ fx.stage \in {"args", "type", "instance", "validated"}
    /\ fx.parent = NoneObj
    /\ fx' = [ fx EXCEPT !.parent = TheParent ]
    /\ UNCHANGED mainVars
    /\ UNCHANGED bv

\* save(commit) of the form, or of every form of the formset
FxSave(commit, data) ==
    /\ fx.stage = "validated"
    /\ fx.valid
    /\ LET one(i) == form_save(fx.type, NewInstance(fx.model), data, fx.parent)
           made == Concat([ i \in 1..fx.n |-> one(i).calls ])
           raises == FxRaises(made)
       IN  fx' = [ fx EXCEPT
                     !.stage = "saved",
                     !.calls = @ \o made,
                     !.failed = IF raises THEN "save" ELSE @,
                     !.objs = IF raises THEN << >>
                              ELSE [ i \in 1..fx.n |->
                                       IF commit THEN [one(i).obj EXCEPT !.pk = i]
                                       ELSE one(i).obj ] ]
    /\ UNCHANGED mainVars
    /\ UNCHANGED bv

NextFactory ==
    \/ FxBoundObjectForm
    \/ FxBoundObjectFormset
    \/ \E n \in 1..MaxForms : FxConstruct(n)
    \/ \E ok \in BOOLEAN : FxIsValid(ok)
    \/ FxParentAppears
    \/ \E commit \in BOOLEAN, data \in FxData : FxSave(commit, data)

InitFactory ==
    /\ fx \in FxArgs
    /\ bv = IdleBv
    /\ view = "none"
    /\ forms_models = << >>
    /\ db_primary = {}
    /\ db_secondary = {}
    /\ object = UnsetObj
    /\ new_object = UnsetObj
    /\ form = IdleForm
    /\ forms = << >>
    /\ sub_objects = << >>
    /\ log = << >>
    /\ response = IdleResponse
    /\ request = IdleRequest

SpecFactory == InitFactory /\ [][NextFactory]_vars

----------------------------------------------------------------------------
(* Claims about the factories, under SpecFactory *)

\* What the bound value resolves to at the moment of the save.
FxResolved == IF fx.initial.callable THEN fx.parent ELSE fx.initial.value

FxSaved == fx.stage = "saved" /\ fx.failed = "no"

FxSaveSetsParent ==
    FxSaved => /\ Len(fx.objs) = fx.n
               /\ \A i \in DOMAIN fx.objs : fx.objs[i][fx.field] = FxResolved

\* C3 as stated: in every form type the factories produce, the parent field
\* is in the effective exclusion list exactly once, together with every
\* exclusion the base form already had; and every saved instance carries the
\* resolved bound value in the parent field, whatever was submitted for it.
C3_AsStated ==
    /\ fx.built =>
         /\ Count(fx.type.exclude, fx.field) = 1
         /\ fx.base.hasExclude =>
              \A e \in Range(fx.base.exclude) : Contains(fx.type.exclude, e)
    /\ FxSaveSetsParent

\* C3 amended: the parent field is in the effective exclusion list exactly
\* once; the list keeps every entry of the formset's `exclude` option when
\* one is passed, and every exclusion of the base form when none is passed;
\* every saved instance carries the resolved bound value in the parent field.
C3_ExcludedAndForced ==
    /\ fx.built =>
         /\ Count(fx.type.exclude, fx.field) = 1
         /\ IF fx.path = "formset" /\ fx.kw.hasExclude
            THEN \A e \in Range(fx.kw0.exclude) : Contains(fx.type.exclude, e)
            ELSE fx.base.hasExclude =>
                   \A e \in Range(fx.base.exclude) : Contains(fx.type.exclude, e)
    /\ FxSaveSetsParent

\* C3 witness: a formset built over a base form with its own exclusions and
\* with an `exclude` option, saved with a foreign value submitted for the
\* parent field.
C3_Witness ==
    /\ FxSaved
    /\ fx.path = "formset"
    /\ fx.kw.hasExclude
    /\ fx.base.hasExclude /\ fx.base.exclude # << >>
    /\ fx.n = MaxForms
    /\ \A i \in DOMAIN fx.objs : fx.objs[i][fx.field] # Intruder

\* C5: a producer is not invoked while the form type is built, while an
\* instance is constructed or while it is validated, so none of these fails
\* when the object does not exist yet; it is invoked during save only, once
\* for each saved instance.
C5_ProducerOnlyAtSave ==
    /\ fx.stage \in {"args", "type", "instance", "validated"} =>
         fx.calls = << >> /\ fx.failed = "no"
    /\ \A i \in DOMAIN fx.calls : fx.calls[i] = "save"
    /\ fx.stage = "saved" =>
         Len(fx.calls) = IF fx.initial.callable THEN fx.n ELSE 0

\* C5 witness: a formset with a producer was built, constructed and validated
\* while the object did not exist, and saved once it did.
C5_Witness ==
    /\ FxSaved
    /\ fx.initial.callable
    /\ fx.path = "formset"
    /\ fx.n = MaxForms
    /\ Len(fx.calls) = MaxForms
    /\ \A i \in DOMAIN fx.objs : fx.objs[i][fx.field] = TheParent

----------------------------------------------------------------------------
(* SpecBound: one BoundCreateView instance and the methods called on it.   *)

\* The view as configured (model, template_name_suffix, what the superclasses
\* answer for template names) and the parent the URL resolves to.
BvConfigured ==
    { [ stage |-> "new", method |-> m, object |-> o,
        parent |-> Obj(pm.object_name, 1), parent_meta |-> pm,
        model_meta |-> cm, suffix |-> sfx, super |-> sup,
        last |-> "none", before |-> o, form_class |-> FxNoType,
        kwargs |-> ModelFormMixin_get_form_kwargs(NoneObj, "GET"),
        prefix |-> "", names |-> << >> ] :
      m \in {"GET", "POST"}, o \in {UnsetObj, NoneObj},
      pm \in ParentMetas, cm \in ChildMetas \cup {NoMeta},
      sfx \in Suffixes, sup \in SuperResults }

InitBound ==
    /\ bv \in BvConfigured
    /\ fx = IdleFx
    /\ view = "none"
    /\ forms_models = << >>
    /\ db_primary = {}
    /\ db_secondary = {}
    /\ object = UnsetObj
    /\ new_object = UnsetObj
    /\ form = IdleForm
    /\ forms = << >>
    /\ sub_objects = << >>
    /\ log = << >>
    /\ response = IdleResponse
    /\ request = IdleRequest

\* get_form_class, lines 163-170
BvGetFormClass ==
    /\ bv.model_meta # NoMeta
    /\ bv' = [ bv EXCEPT
                 !.stage = "resolved", !.last = "get_form_class",
                 !.before = bv.object,
                 !.object = bv.parent,
                 !.form_class = bound_object_form(bv.model_meta.object_name, "parent",
                                                  Producer("get_object"), NoForm) ]
    /\ UNCHANGED mainVars
    /\ UNCHANGED fx

\* get_form_kwargs, lines 178-187 (self.object must exist to be read)
BvGetFormKwargs ==
    /\ bv.object # UnsetObj
    /\ LET r == get_form_kwargs(bv.object, bv.method)
       IN  bv' = [ bv EXCEPT !.last = "get_form_kwargs", !.before = bv.object,
                             !.object = r.object, !.kwargs = r.kwargs ]
    /\ UNCHANGED mainVars
    /\ UNCHANGED fx

\* get_form, lines 172-176
BvGetForm ==
    /\ bv.stage = "resolved"
    /\ LET r == get_form_kwargs(bv.object, bv.method)
       IN  bv' = [ bv EXCEPT !.last = "get_form", !.before = bv.object,
                             !.object = r.object, !.kwargs = r.kwargs,
                             !.prefix = "core-object" ]
    /\ UNCHANGED mainVars
    /\ UNCHANGED fx

\* get_template_names, lines 189-210 (self.object must exist to be read)
BvGetTemplateNames ==
    /\ bv.object # UnsetObj
    /\ bv' = [ bv EXCEPT
                 !.last = "get_template_names", !.before = bv.object,
                 !.names = get_template_names(bv.object, bv.parent_meta,
                                              bv.model_meta, bv.suffix, bv.super) ]
    /\ UNCHANGED mainVars
    /\ UNCHANGED fx

NextBound ==
    \/ BvGetFormClass
    \/ BvGetFormKwargs
    \/ BvGetForm
    \/ BvGetTemplateNames

SpecBound == InitBound /\ [][NextBound]_vars

----------------------------------------------------------------------------
(* Claims about BoundCreateView, under SpecBound *)

BvSuperContributes == IF bv.super.raises THEN << >> ELSE bv.super.names

\* C6: with the parent resolved, the template names are
\*   <parent app>/<parent>_<child><suffix>.html
\*   <child app>/<parent>_<child><suffix>.html
\*   <child app>/<child><suffix>.html
\*   <parent app>/<child><suffix>.html
\* in this order, followed by exactly the superclasses' names (none when the
\* superclass raises ImproperlyConfigured).
C6_TemplateNames ==
    (bv.last = "get_template_names" /\ bv.object = bv.parent /\ bv.model_meta # NoMeta) =>
        LET pa == bv.parent_meta.app_label
            ca == bv.model_meta.app_label
            pn == Lower(bv.parent_meta.object_name)
            cn == Lower(bv.model_meta.object_name)
        IN  bv.names = << << pa, "/", pn, "_", cn, bv.suffix, ".html" >>,
                          << ca, "/", pn, "_", cn, bv.suffix, ".html" >>,
                          << ca, "/", cn, bv.suffix, ".html" >>,
                          << pa, "/", cn, bv.suffix, ".html" >> >>
                       \o BvSuperContributes

\* C6 witness: app1.Parent, app2.Child, "_create", two superclass names.
C6_Witness ==
    /\ bv.stage = "resolved"
    /\ bv.last = "get_template_names"
    /\ Len(BvSuperContributes) = MaxSuperNames
    /\ bv.names = << << "app1", "/", "parent", "_", "child", "_create", ".html" >>,
                     << "app2", "/", "parent", "_", "child", "_create", ".html" >>,
                     << "app2", "/", "child", "_create", ".html" >>,
                     << "app1", "/", "child", "_create", ".html" >> >>
                  \o BvSuperContributes

\* C10: get_form_kwargs leaves self.object as it found it, and the kwargs it
\* returns do not carry the parent as `instance`.
C10_ObjectRestored ==
    bv.last = "get_form_kwargs" =>
        /\ bv.object = bv.before
        /\ bv.kwargs.instance # bv.parent

\* C10 witness: get_form_kwargs was called with the parent resolved.
C10_Witness ==
    /\ bv.last = "get_form_kwargs"
    /\ bv.before = bv.parent
    /\ bv.object = bv.parent
    /\ bv.kwargs.instance = NoneObj

----------------------------------------------------------------------------
(* Spec: requests against one of the composed views.                       *)
(* A behaviour fixes the view class and its forms_models; every step is one *)
(* request, handled from dispatch to response by a fresh view instance.     *)

ConfEntries ==
    { Bare("Child"), Bare("Link"), Bare("Tag"),
      Conf(TRUE, "Child", "parent", "None", NoForm, NoKwargs),
      Conf(TRUE, "Child", NoField, "None", NoForm, Kwargs(TRUE, << "name" >>)),
      Conf(TRUE, "Child", NoField, "None", FormClass(TRUE, TRUE, << "name" >>), NoKwargs),
      Conf(TRUE, "Link", "parent", "explicit", NoForm, NoKwargs),
      Conf(TRUE, "Link", "other", "None", NoForm, Kwargs(TRUE, << "other", "name" >>)) }

\* forms_models as a class declares it: entries for different models.
FormsModelsChoices ==
    { c \in UNION { [1..k -> ConfEntries] : k \in 1..MaxModels } :
        \A i, j \in DOMAIN c : i # j => c[i].model # c[j].model }

UrlPks == 1..MaxPrimary

Req(m, k, fv, inv, n, ch, d) ==
    [ method |-> m, urlpk |-> k, form_valid |-> fv, invalid |-> inv, n |-> n,
      changed |-> ch, data |-> d ]
\* What a POST submits for every row: a foreign object in the foreign keys.
PostData == SubmittedData(Intruder, Intruder, 1)
NoData == SubmittedData(NoneObj, NoneObj, 0)

GetRequests == { Req("GET", k, FALSE, 0, 0, FALSE, NoData) : k \in UrlPks }
\* POSTs whose forms are all valid, with 0..MaxForms new rows in each formset
\* and the rows of the base query changed or not.
ValidPosts ==
    { Req("POST", k, TRUE, 0, n, ch, PostData) :
        k \in UrlPks, n \in 0..MaxForms, ch \in BOOLEAN }
\* POSTs with the primary form invalid, or with formset `inv` invalid.
InvalidPosts ==
    { Req("POST", k, FALSE, 0, 1, TRUE, PostData) : k \in UrlPks }
    \cup { Req("POST", k, TRUE, inv, 1, TRUE, PostData) :
             k \in UrlPks, inv \in 1..MaxModels }
PostRequests == ValidPosts \cup InvalidPosts

Init ==
    /\ view \in Views
    /\ forms_models \in FormsModelsChoices
    /\ db_primary = { Instance("Primary", 1, Obj("Parent", 1), NoneObj, 0) }
    /\ db_secondary = {}
    /\ object = UnsetObj
    /\ new_object = UnsetObj
    /\ form = IdleForm
    /\ forms = << >>
    /\ sub_objects = << >>
    /\ log = << >>
    /\ response = IdleResponse
    /\ request = IdleRequest
    /\ fx = IdleFx
    /\ bv = IdleBv

\* One request, from dispatch to response.
Handle(req) ==
    /\ req.invalid <= Len(forms_models)
    /\ \E out \in { dispatch(view, forms_models, db_primary, db_secondary, req) } :
           /\ Cardinality(out.dbp) <= MaxPrimary
           /\ Cardinality(out.dbs) <= MaxSecondary
           /\ forms_models' = out.confs
           /\ db_primary' = out.dbp
           /\ db_secondary' = out.dbs
           /\ object' = out.self.object
           /\ new_object' = out.self.new_object
           /\ form' = out.form
           /\ forms' = out.forms
           /\ sub_objects' = out.sub_objects
           /\ log' = out.log
           /\ response' = out.response
    /\ request' = req
    /\ UNCHANGED << view, fx, bv >>

MultiUpdateViewGet ==
    /\ view = "MultiUpdateView"
    /\ \E req \in GetRequests : Handle(req)

MultiUpdateViewPost ==
    /\ view = "MultiUpdateView"
    /\ \E req \in PostRequests : Handle(req)

MultiBoundCreateViewGet ==
    /\ view = "MultiBoundCreateView"
    /\ \E req \in GetRequests : Handle(req)

MultiBoundCreateViewPost ==
    /\ view = "MultiBoundCreateView"
    /\ \E req \in PostRequests : Handle(req)

\* The URL of MultiCreateView carries no pk.
MultiCreateViewGet ==
    /\ view = "MultiCreateView"
    /\ \E req \in GetRequests : req.urlpk = 1 /\ Handle(req)

MultiCreateViewPost ==
    /\ view = "MultiCreateView"
    /\ \E req \in PostRequests : req.urlpk = 1 /\ Handle(req)

Next ==
    \/ MultiUpdateViewGet
    \/ MultiUpdateViewPost
    \/ MultiBoundCreateViewGet
    \/ MultiBoundCreateViewPost
    \/ MultiCreateViewGet
    \/ MultiCreateViewPost

Spec == Init /\ [][Next]_vars

----------------------------------------------------------------------------
(* Claims about the composed views, under Spec *)

Posted == request.method = "POST" /\ response.kind \in {"render", "redirect"}
Redirected == request.method = "POST" /\ response.kind = "redirect"
FailedValidation ==
    /\ Posted
    /\ \/ form.is_valid = "invalid"
       \/ \E i \in DOMAIN forms : forms[i].is_valid = "invalid"

SaveOps == { "form.save", "new_object.save()", "formset.save", "obj.save()",
             "form.save_m2m()" }
SecondarySaveOps == { "formset.save", "obj.save()" }
At(op) == { i \in DOMAIN log : log[i].op = op }
PrimarySaveAt == { i \in DOMAIN log : log[i] = Ev("form.save", "commit=False") }
SecondarySaveAt ==
    { i \in DOMAIN log :
        \/ log[i].op \in SecondarySaveOps
        \/ log[i].op = "form.save" /\ log[i].arg # "commit=False" }

\* C1: a POST in which the primary form or a secondary formset fails
\* validation invokes no save, leaves every primary and secondary row as it
\* was, and answers with a re-render, not a redirect.
C1_AllOrNothing ==
    [][ FailedValidation' =>
          /\ db_primary' = db_primary
          /\ db_secondary' = db_secondary
          /\ response'.kind = "render"
          /\ \A i \in DOMAIN log' : log'[i].op \notin SaveOps ]_vars

\* C1 witness: the primary form was valid, one of two formsets was not, and
\* the forms were rendered again.
C1_Witness ==
    /\ FailedValidation
    /\ form.is_valid = "valid"
    /\ Len(forms) >= 2
    /\ forms[2].is_valid = "invalid"
    /\ response.kind = "render"

\* C2: in a successful POST the primary form is saved with commit=False and
\* the instance saved, both before any secondary save; save_m2m follows
\* every secondary save, and the success URL is computed after it, last.
C2_SaveOrder ==
    Redirected =>
        /\ Cardinality(PrimarySaveAt) = 1
        /\ Cardinality(At("new_object.save()")) = 1
        /\ Cardinality(At("form.save_m2m()")) = 1
        /\ Cardinality(At("get_success_url()")) = 1
        /\ \A a \in PrimarySaveAt, b \in At("new_object.save()"),
              c \in At("form.save_m2m()"), d \in At("get_success_url()") :
               /\ a < b /\ b < c /\ c < d /\ d = Len(log)
               /\ \A i \in SecondarySaveAt : b < i /\ i < c

\* C2 witness: a successful POST that saved rows in two formsets.
C2_Witness ==
    /\ Redirected
    /\ Len(sub_objects) >= 2
    /\ \A i \in DOMAIN sub_objects : sub_objects[i] # << >>

\* C4: a POST whose forms are all valid persists exactly one primary row
\* (a new one in the creating views), one row for every form of every
\* formset, and every row a formset saved carries self.new_object, the
\* primary row, in the field the formset is bound on; in MultiBoundCreateView
\* that is not the parent held in self.object.
C4_BoundToNewObject ==
    [][ Redirected' =>
          /\ Cardinality(At("new_object.save()")') = 1
          /\ \E r \in db_primary' :
               /\ new_object' = Obj("Primary", r.pk)
               /\ db_primary' \ db_primary \subseteq {r}
               /\ IF view = "MultiUpdateView"
                  THEN r.pk = request'.urlpk
                       /\ Cardinality(db_primary') = Cardinality(db_primary)
                  ELSE r.pk \notin { q.pk : q \in db_primary }
                       /\ Cardinality(db_primary') = Cardinality(db_primary) + 1
          /\ Len(sub_objects') = Len(forms')
          /\ Cardinality(db_secondary') =
                 Cardinality(db_secondary) + request'.n * Len(forms')
          /\ \A i \in DOMAIN forms' :
               /\ Len(sub_objects'[i]) =
                      request'.n
                      + (IF request'.changed
                         THEN Len(queryset_rows(forms'[i].queryset, forms'[i].model,
                                                db_secondary))
                         ELSE 0)
               /\ \A j \in DOMAIN sub_objects'[i] :
                    /\ sub_objects'[i][j] \in db_secondary'
                    /\ sub_objects'[i][j][forms'[i].field] = new_object'
                    /\ view = "MultiBoundCreateView" =>
                         sub_objects'[i][j][forms'[i].field] # object' ]_vars

\* C4 witness: MultiBoundCreateView created a primary row and a row in each
\* of two formsets, all bound to the new row, with the parent in self.object.
C4_Witness ==
    /\ Redirected
    /\ view = "MultiBoundCreateView"
    /\ object = Obj("Parent", 1)
    /\ new_object = Obj("Primary", 2)
    /\ Len(sub_objects) >= 2
    /\ \A i \in DOMAIN sub_objects :
         /\ sub_objects[i] # << >>
         /\ \A j \in DOMAIN sub_objects[i] :
              sub_objects[i][j][forms[i].field] = Obj("Primary", 2)

\* The first foreign key in the declared field order (NoField: there is none).
FirstForeignKey(m) ==
    LET fks == { i \in DOMAIN ModelFields(m) : ModelFields(m)[i].fk }
    IN  IF fks = {} THEN NoField
        ELSE ModelFields(m)[CHOOSE i \in fks : \A j \in fks : i <= j].name

\* C7: for an entry without field_name the formset is bound on the first
\* foreign key of the model in declaration order; a model without foreign
\* key and without field_name is a configuration error.
C7_FirstForeignKey ==
    /\ \A i \in DOMAIN forms :
         forms[i].auto => forms[i].field = FirstForeignKey(forms[i].model)
    /\ response.kind \in {"render", "redirect"} =>
         \A i \in DOMAIN forms_models :
             forms_models[i].field_name = NoField =>
                 FirstForeignKey(forms_models[i].model) # NoField

\* C8: no request changes forms_models: the list, its entries and the
\* `exclude` lists they carry stay what the class declared.
C8_ConfigurationUntouched ==
    [][ forms_models' = forms_models ]_vars

\* C9: for an entry without queryset the base query is empty in the creating
\* views (MultiCreateView, MultiBoundCreateView), on GET and on POST; in
\* MultiUpdateView it is the rows whose parent field is the primary object;
\* it is never a filter on an object that is not the primary object.
C9_BaseQuery ==
    \A i \in DOMAIN forms :
        forms[i].queryset.kind # "explicit" =>
            IF view = "MultiUpdateView"
            THEN forms[i].queryset =
                     Queryset("filter", forms[i].field, Obj("Primary", request.urlpk))
            ELSE forms[i].queryset.kind = "none"

====
